---- MODULE Spec2Model ----
(***************************************************************************)
(* Model of the SUNOPlaylist player of src/app.js: the playlist, the       *)
(* cursor, the playback modes, the asynchronous load (short-link           *)
(* resolution and metadata lookups), the drag-and-drop reorder and the     *)
(* media element's events, the address-bar token and the startup restore   *)
(* from the address; of its PlaylistStorage (the localStorage keys of the  *)
(* history, the favorites, the last session and the liked tracks) and of   *)
(* fetchSongMetadata's retries and getShareUrl; and of the collector's     *)
(* popup of src/unnamed/part_001 (addLink, deleteLink, clearAll over       *)
(* chrome.storage.local).                                                  *)
(*                                                                         *)
(* Indices are 0-based as in the JavaScript source: the track under the    *)
(* cursor is playlist[currentIndex + 1].                                   *)
(***************************************************************************)
EXTENDS Integers, Sequences, FiniteSets, TLC

\* ---------------------------------------------------------------- bounds
NumUuids == 2          \* distinct identifiers the inputs are drawn from
MaxLines == 3          \* non-empty lines of one load's input
MaxLoads == 2          \* loads started in one behaviour
MaxLen   == 3          \* longest playlist: loads and stale drops that exceed it are left out
MaxStr   == 1          \* longest query value that is not a joined identifier list
MaxClock == 5          \* last millisecond Date.now() reaches
MaxFavs  == 2          \* favorites the history's user keeps at a time
MaxSaved == 11         \* distinct identifier lists the history's user saves
NumUrls  == 2          \* distinct song pages the collector is used on
MaxJobs  == 3          \* handlers of the collector's popup suspended at a time

UUIDs    == 1..NumUuids
Loads    == 1..MaxLoads
TrackIds == 1..(MaxLoads * MaxLines)

\* An input line: a line carrying identifier u (both regular expressions of
\* extractUUID agree on it), a short link "/s/<id>", or text with neither.
Short   == -1
Garbage == 0
LineKinds == UUIDs \cup {Short, Garbage}
InputsOver(kinds) == UNION {[1..n -> kinds] : n \in 1..MaxLines}

Undef  == 0            \* the JavaScript value undefined as a playlist entry
NoDrag == -1           \* draggedIndex === null

VARIABLES
    playlist,          \* this.playlist: sequence of track objects (by id) or Undef
    originalPlaylist,  \* this.originalPlaylist
    currentIndex,      \* this.currentIndex
    isPlaying,         \* this.isPlaying
    shuffleMode,       \* this.shuffleMode
    repeatMode,        \* this.repeatMode
    loadingStates,     \* this.loadingStates: uuid -> state (and the load whose lookup wrote it)
    tracks,            \* the track objects: id -> fields (by: the load whose lookup wrote them)
    pc,                \* position of each loadPlaylist() call
    rest,              \* lines a suspended loadPlaylist() has still to extract
    pending,           \* metadata lookups in flight: <<load, track object>>
    superseded,        \* <<k, l>>: load l started while lookups of load k were in flight
    audio,             \* the media element
    draggedIndex,      \* this.draggedIndex
    rendered,          \* number of .playlist-item elements in the DOM
    address,           \* window.location: the path and the query parameters p and tracks
    linksInput,        \* elements.linksInput.value: its non-empty lines
    startup,           \* what init() left pending: the 500 ms timer or the short-URL fetch
    preShuffle,        \* history: the order and the cursor's identifier when shuffle was enabled
    storage,           \* localStorage: the values under the four keys of PlaylistStorage
    now,               \* Date.now()
    fetches,           \* fetchSongMetadata() calls in flight: attempt, phase, requests issued
    stock,             \* the collector: the list under 'sunocat_links' and the items rendered
    jobs,              \* the collector: the calls of its popup's handlers
    call,              \* history: the last call of a PlaylistStorage method and its outcome
    share,             \* the getShareUrl() call: where it stands, the answer and the URL
    lastOp             \* the handler that ran last

vars == <<playlist, originalPlaylist, currentIndex, isPlaying, shuffleMode,
          repeatMode, loadingStates, tracks, pc, rest, pending, superseded,
          audio, draggedIndex, rendered, address, linksInput, startup, preShuffle,
          storage, now, fetches, stock, jobs, call, share, lastOp>>

\* the collector's state and the record of the calls of PlaylistStorage's
\* methods from outside the player, which no handler of the player touches
collector == <<stock, jobs, call>>

\* the player's state, which neither the collector nor a method of
\* PlaylistStorage touches
player == <<playlist, originalPlaylist, currentIndex, isPlaying, shuffleMode, repeatMode,
            loadingStates, tracks, pc, rest, pending, superseded, audio, draggedIndex,
            rendered, address, linksInput, startup, preShuffle, fetches, lastOp>>

\* ---------------------------------------------------------------- helpers
\* lastOp names the handlers the properties below are about; the others are
\* recorded as "other".
Tracked == {"next", "previous", "ended", "error", "noValidLinks",
            "shuffleOn", "shuffleOff", "shuffleBack", "reorder"}
Tag(op) == IF op \in Tracked THEN op ELSE "other"

Owner(id) == ((id - 1) \div MaxLines) + 1
IdsOf(l)  == {id \in TrackIds : Owner(id) = l}
\* `https://cdn1.suno.ai/${uuid}.mp3`, as the identifier it is built from
Mp3Url(u) == u
NoTrack   == [uuid |-> 0, mp3Url |-> 0, title |-> "placeholder", artist |-> "Loading",
              thumbnail |-> "none", isLiked |-> FALSE, by |-> 0]
NoState   == [st |-> "none", by |-> 0]

HasUndef(pl) == \E i \in 1..Len(pl) : pl[i] = Undef

\* playlist.map(t => t.uuid) where every entry is a track
UuidsOf(pl, tr) == [i \in 1..Len(pl) |-> IF pl[i] = Undef THEN 0 ELSE tr[pl[i]].uuid]

\* The fields a transport handler reads and writes; threw records that the
\* handler was left by an exception.
Transport == [ci |-> currentIndex, playing |-> isPlaying, audio |-> audio,
              rendered |-> rendered, threw |-> FALSE]

\* renderPlaylist(ignoreGuard): returns at once while a drag is in progress;
\* track.thumbnail of an undefined entry throws before innerHTML is assigned.
RenderPlaylist(pl, drag, ignoreGuard, s) ==
    IF ~ignoreGuard /\ drag # NoDrag THEN s
    ELSE IF HasUndef(pl) THEN [s EXCEPT !.threw = TRUE]
    ELSE [s EXCEPT !.rendered = Len(pl)]

\* loadTrack(index)
LoadTrack(index, pl, drag, s) ==
    IF index < 0 \/ index >= Len(pl) THEN s
    ELSE IF pl[index + 1] = Undef
         THEN [s EXCEPT !.ci = index, !.threw = TRUE]
         ELSE RenderPlaylist(pl, drag, FALSE,
                             [s EXCEPT !.ci = index, !.audio = "ready"])

\* play(): the returned promise is fulfilled later (PlayResolved); on an
\* element without a usable source it never is.
Play(pl, s) ==
    IF Len(pl) = 0 THEN s
    ELSE [s EXCEPT !.audio = IF @ = "dead" THEN "dead" ELSE "starting"]

\* pause()
Pause(s) ==
    [s EXCEPT !.audio = IF @ \in {"starting", "playing"} THEN "ready" ELSE @,
              !.playing = FALSE]

\* playNext() without the repeat-all branch: the end of the list always returns
NextIndexNoWrap(ci, len, rep) ==
    IF ci + 1 >= len THEN -1 ELSE ci + 1

\* playNext(): the index to load, or -1 for the early return
NextIndex(ci, len, rep) ==
    IF ci + 1 >= len
    THEN (IF rep = "all" THEN 0 ELSE -1)
    ELSE ci + 1

PlayNextOp(pl, drag, rep, s) ==
    IF Len(pl) = 0 THEN s
    ELSE LET idx == NextIndex(s.ci, Len(pl), rep) IN
         IF idx = -1 THEN s
         ELSE LET s1 == LoadTrack(idx, pl, drag, s) IN
              IF s1.threw THEN s1
              ELSE IF s1.playing THEN Play(pl, s1) ELSE s1

\* playPrevious(): the index to load, or -1 for the early return
PrevIndex(ci, len, rep) ==
    IF ci - 1 < 0
    THEN (IF rep = "all" THEN len - 1 ELSE -1)
    ELSE ci - 1

PlayPreviousOp(pl, drag, rep, s) ==
    IF Len(pl) = 0 THEN s
    ELSE LET idx == PrevIndex(s.ci, Len(pl), rep) IN
         IF idx = -1 THEN s
         ELSE LET s1 == LoadTrack(idx, pl, drag, s) IN
              IF s1.threw THEN s1
              ELSE IF s1.playing THEN Play(pl, s1) ELSE s1

\* this.playlist[this.currentIndex].uuid, 0 where there is no such track
CurUuid(pl, tr, ci) ==
    IF ci < Len(pl) /\ pl[ci + 1] # Undef THEN tr[pl[ci + 1]].uuid ELSE 0

SetTransport(s) ==
    /\ currentIndex' = s.ci
    /\ isPlaying' = s.playing
    /\ audio' = s.audio
    /\ rendered' = s.rendered

\* ---------------------------------------------------------------- address bar
\* A string is a sequence of symbols: an identifier u (its 36 characters taken
\* as one symbol), the separator ',' and a character no identifier contains.
Comma == 0
Junk  == -1

\* Array.prototype.join(',') of a list of strings
RECURSIVE Join(_)
Join(segs) ==
    IF segs = <<>> THEN <<>>
    ELSE IF Len(segs) = 1 THEN segs[1]
    ELSE segs[1] \o <<Comma>> \o Join(Tail(segs))

\* String.prototype.split(','): the empty string yields one empty segment
RECURSIVE Split(_)
Split(str) ==
    IF \A i \in 1..Len(str) : str[i] # Comma THEN <<str>>
    ELSE LET k == CHOOSE i \in 1..Len(str) :
                      str[i] = Comma /\ \A j \in 1..(i - 1) : str[j] # Comma
         IN <<SubSeq(str, 1, k - 1)>> \o Split(SubSeq(str, k + 1, Len(str)))

\* this.playlist.map(t => t.uuid).join(',')
JoinUuids(us) == Join([i \in 1..Len(us) |-> <<us[i]>>])

\* A query parameter: absent (params.get returns null), or a string.  A value
\* of p is represented by what decompressFromEncodedURIComponent returns for
\* it: the string it is the compression of ("lz"), or null ("corrupt").
Absent    == [kind |-> "absent", s |-> <<>>]
Text(str) == [kind |-> "text", s |-> str]
Corrupt   == [kind |-> "corrupt", s |-> <<>>]

\* LZString.compressToEncodedURIComponent(str): never the empty string
Compress(str) == [kind |-> "lz", s |-> str]

\* LZString.decompressFromEncodedURIComponent(v)
Decompress(v) ==
    IF v.kind = "lz" THEN [null |-> FALSE, s |-> v.s] ELSE [null |-> TRUE, s |-> <<>>]

\* a value that is neither null nor ''
Truthy(v) == v.kind # "absent" /\ ~(v.kind = "text" /\ v.s = <<>>)

\* extractUUID() of the line `https://suno.com/song/${seg}`: the first
\* identifier in it
KindOf(seg) ==
    IF \A i \in 1..Len(seg) : seg[i] \notin UUIDs THEN Garbage
    ELSE seg[CHOOSE i \in 1..Len(seg) :
                 seg[i] \in UUIDs /\ \A j \in 1..(i - 1) : seg[j] \notin UUIDs]

LinesOf(segs) == [i \in 1..Len(segs) |-> KindOf(segs[i])]

\* loadFromURL() decompressing whichever parameter it found
DecodeAlwaysCompressed(a) ==
    LET d == Decompress(IF Truthy(a.p) THEN a.p ELSE a.tracks)
    IN IF d.null THEN [threw |-> TRUE, uuids |-> <<>>]
       ELSE [threw |-> FALSE, uuids |-> Split(d.s)]

\* The try block of loadFromURL(): the list uuids, or threw for the TypeError
\* of null.split
Decode(a) ==
    IF Truthy(a.p)
    THEN LET d == Decompress(a.p)
         IN IF d.null THEN [threw |-> TRUE, uuids |-> <<>>]
            ELSE [threw |-> FALSE, uuids |-> Split(d.s)]
    ELSE [threw |-> FALSE, uuids |-> Split(a.tracks.s)]

\* loadFromURL() looking at the query before the path
LoadFromURLQueryFirst(a) ==
    IF Truthy(a.p) \/ Truthy(a.tracks)
    THEN LET d == Decode(a)
         IN IF d.threw \/ Len(d.uuids) = 0
            THEN [lines |-> <<>>, startup |-> "idle"]
            ELSE [lines |-> LinesOf(d.uuids), startup |-> "timer"]
    ELSE IF a.path = "/p/x" THEN [lines |-> <<>>, startup |-> "fetching"]
    ELSE [lines |-> <<>>, startup |-> "idle"]

\* loadFromURL(), run once by init(): what it leaves in linksInput and what it
\* leaves pending.
LoadFromURL(a) ==
    IF a.path = "/p/x" THEN [lines |-> <<>>, startup |-> "fetching"]
    ELSE IF ~(Truthy(a.p) \/ Truthy(a.tracks)) THEN [lines |-> <<>>, startup |-> "idle"]
    ELSE LET d == Decode(a)
         IN IF d.threw \/ Len(d.uuids) = 0
            THEN [lines |-> <<>>, startup |-> "idle"]
            ELSE [lines |-> LinesOf(d.uuids), startup |-> "timer"]

\* updateURL()
UpdateURL(pl, tr, a) ==
    IF Len(pl) = 0 THEN a
    ELSE [path |-> a.path, p |-> Compress(JoinUuids(UuidsOf(pl, tr))), tracks |-> Absent]

NoQuery == [path |-> "/", p |-> Absent, tracks |-> Absent]
NoShuffle == [pl |-> <<>>, cur |-> 0, touched |-> FALSE]

\* preShuffle once the playlist has been replaced while shuffle is enabled
Touched == IF shuffleMode THEN [preShuffle EXCEPT !.touched = TRUE] ELSE preShuffle

\* ---------------------------------------------------------------- localStorage
\* PlaylistStorage. A stored item is absent (getItem returns null), text that
\* JSON.parse rejects, text that parses to a value without the array methods
\* (null, a number, an object), or the JSON text of a list.
MAX_RECENT == 10
NoItem     == [kind |-> "absent", v |-> <<>>]
Unparsable == [kind |-> "unparsable", v |-> <<>>]
WrongShape == [kind |-> "shape", v |-> <<>>]
Stored(list) == [kind |-> "ok", v |-> list]

\* getRecentPlaylists(), getFavorites(), getLikedTracks():
\* data ? JSON.parse(data) : [] with a catch that returns []
ReadList(item) ==
    IF item.kind = "ok" THEN [isList |-> TRUE, v |-> item.v]
    ELSE IF item.kind = "shape" THEN [isList |-> FALSE, v |-> <<>>]
    ELSE [isList |-> TRUE, v |-> <<>>]

\* playlist.map(t => ({uuid, title, artist})) on the player's playlist
Snapshot(pl, tr) ==
    [i \in 1..Len(pl) |->
        LET t == IF pl[i] = Undef THEN NoTrack ELSE tr[pl[i]]
        IN [uuid |-> t.uuid, title |-> t.title, artist |-> t.artist]]

\* p.tracks.map(t => t.uuid)
RecordUuids(p) == [i \in 1..Len(p.tracks) |-> p.tracks[i].uuid]

\* filtered.slice(0, n)
Slice(list, n) == SubSeq(list, 1, IF Len(list) < n THEN Len(list) ELSE n)

\* the least member of a non-empty set of indices, 0 for the empty set
FirstOf(S) == IF S = {} THEN 0 ELSE CHOOSE i \in S : \A j \in S : i <= j

\* list.findIndex(p => p.id === id) and list.indexOf(x), 1-based, 0 for none
IndexOfId(list, id) == FirstOf({i \in 1..Len(list) : list[i].id = id})
IndexOf(list, x)    == FirstOf({i \in 1..Len(list) : list[i] = x})

\* list.splice(i, 1) for a 1-based index inside the list
Without(list, i) == SubSeq(list, 1, i - 1) \o SubSeq(list, i + 1, Len(list))

\* The storage operations take the stored items st, their arguments and, for
\* each localStorage.setItem they reach, whether it succeeds (w, w2). They
\* give the items afterwards, the value returned (0 for null and false, 1
\* for true), whether an exception left the operation and whether a setItem
\* failed.
Returned(st, ret) == [st |-> st, ret |-> ret, threw |-> FALSE, wfail |-> FALSE]
WriteFailed(st)   == [st |-> st, ret |-> 0, threw |-> FALSE, wfail |-> TRUE]

\* savePlaylist(playlist) at time t; playlist is a list of {uuid, title, artist}
SavePlaylistUncapped(st, pl, t, w) ==
    LET recent == ReadList(st.recent)
        obj    == [id |-> t, tracks |-> pl, favorited |-> FALSE]
        kept   == SelectSeq(recent.v, LAMBDA p : RecordUuids(p) # RecordUuids(obj))
    IN IF Len(pl) = 0 \/ ~recent.isList THEN Returned(st, 0)
       ELSE IF ~w THEN WriteFailed(st)
       ELSE Returned([st EXCEPT !.recent = Stored(<<obj>> \o kept)], t)

SavePlaylistNoFilter(st, pl, t, w) ==
    LET recent == ReadList(st.recent)
        obj    == [id |-> t, tracks |-> pl, favorited |-> FALSE]
    IN IF Len(pl) = 0 \/ ~recent.isList THEN Returned(st, 0)
       ELSE IF ~w THEN WriteFailed(st)
       ELSE Returned([st EXCEPT !.recent = Stored(Slice(<<obj>> \o recent.v, MAX_RECENT))], t)

SavePlaylistPruning(st, pl, t, w) ==
    LET recent == ReadList(st.recent)
        obj    == [id |-> t, tracks |-> pl, favorited |-> FALSE]
        kept   == SelectSeq(recent.v, LAMBDA p : RecordUuids(p) # RecordUuids(obj))
        all    == Slice(<<obj>> \o kept, MAX_RECENT)
        favs   == SelectSeq(ReadList(st.favorites).v,
                            LAMBDA f : \E i \in 1..Len(all) : all[i].id = f.id)
    IN IF Len(pl) = 0 \/ ~recent.isList THEN Returned(st, 0)
       ELSE IF ~w THEN WriteFailed(st)
       ELSE Returned([st EXCEPT !.recent = Stored(all), !.favorites = Stored(favs)], t)

SavePlaylist(st, pl, t, w) ==
    IF Len(pl) = 0 THEN Returned(st, 0)
    ELSE LET recent   == ReadList(st.recent)
             obj      == [id |-> t, tracks |-> pl, favorited |-> FALSE]
             \* recent.filter(...): a TypeError, caught, unless recent is a list
             filtered == SelectSeq(recent.v, LAMBDA p : RecordUuids(p) # RecordUuids(obj))
             trimmed  == Slice(<<obj>> \o filtered, MAX_RECENT)
         IN IF ~recent.isList THEN Returned(st, 0)
            ELSE IF ~w THEN WriteFailed(st)
            ELSE Returned([st EXCEPT !.recent = Stored(trimmed)], t)

\* saveCurrent(playlist): hasUndef is true when the playlist holds an
\* undefined entry, whose t.uuid throws inside the try block
SaveCurrent(st, pl, hasUndef, w) ==
    IF Len(pl) = 0 \/ hasUndef THEN Returned(st, 0)
    ELSE IF ~w THEN WriteFailed(st)
    ELSE Returned([st EXCEPT !.current = Stored(pl)], 0)

\* getCurrent(): 1 when a snapshot is returned, 0 for null
GetCurrent(st) == Returned(st, IF st.current.kind \in {"ok", "shape"} THEN 1 ELSE 0)

\* toggleFavorite(playlistId)
ToggleFavorite(st, id, w) ==
    LET favorites == ReadList(st.favorites)
        recent    == ReadList(st.recent)
        \* recent.find(p => p.id === playlistId)
        found     == IndexOfId(recent.v, id)
        index     == IndexOfId(favorites.v, id)
        changed   == IF index > 0 THEN Without(favorites.v, index)
                     ELSE Append(favorites.v, [recent.v[found] EXCEPT !.favorited = TRUE])
    IN IF ~recent.isList \/ found = 0 \/ ~favorites.isList THEN Returned(st, 0)
       ELSE IF ~w THEN WriteFailed(st)
       ELSE Returned([st EXCEPT !.favorites = Stored(changed)], IF index > 0 THEN 0 ELSE 1)

\* deletePlaylist(playlistId): two writes, the history first
DeletePlaylist(st, id, w, w2) ==
    LET recent    == ReadList(st.recent)
        filtered  == SelectSeq(recent.v, LAMBDA p : p.id # id)
        st1       == [st EXCEPT !.recent = Stored(filtered)]
        favorites == ReadList(st1.favorites)
        filteredFavs == SelectSeq(favorites.v, LAMBDA f : f.id # id)
    IN IF ~recent.isList THEN Returned(st, 0)
       ELSE IF ~w THEN WriteFailed(st)
       ELSE IF ~favorites.isList THEN Returned(st1, 0)
       ELSE IF ~w2 THEN WriteFailed(st1)
       ELSE Returned([st1 EXCEPT !.favorites = Stored(filteredFavs)], 1)

\* toggleTrackLike(uuid)
ToggleTrackLike(st, u, w) ==
    LET liked   == ReadList(st.liked)
        index   == IndexOf(liked.v, u)
        changed == IF index > 0 THEN Without(liked.v, index) ELSE Append(liked.v, u)
    IN IF ~liked.isList THEN Returned(st, 0)
       ELSE IF ~w THEN WriteFailed(st)
       ELSE Returned([st EXCEPT !.liked = Stored(changed)], IF index > 0 THEN 0 ELSE 1)

\* isTrackLiked(uuid): getLikedTracks().includes(uuid), outside any try block
IsTrackLiked(st, u) ==
    LET liked == ReadList(st.liked)
    IN [st |-> st,
        ret |-> IF liked.isList /\ \E i \in 1..Len(liked.v) : liked.v[i] = u THEN 1 ELSE 0,
        threw |-> ~liked.isList, wfail |-> FALSE]

\* no method of PlaylistStorage has been called from outside the player
NoCall == [op |-> "none", arg |-> 0, ret |-> 0, threw |-> FALSE, wfail |-> FALSE,
           evicted |-> 0]

\* localStorage of a profile that never ran the player
NoStorage == [recent |-> NoItem, favorites |-> NoItem, current |-> NoItem, liked |-> NoItem]

\* ---------------------------------------------------------------- metadata requests
\* fetchSongMetadata(uuid, retries = 3): the attempt in flight or waited
\* after, the requests issued so far and the delays waited so far.
Retries   == 3
BaseDelay == 1000

RECURSIVE Pow2(_)
Pow2(k) == IF k = 0 THEN 1 ELSE 2 * Pow2(k - 1)

\* 1000 * Math.pow(2, attempt)
DelayFixed(attempt) == BaseDelay
Delay(attempt) == BaseDelay * Pow2(attempt)

NoFetch    == [phase |-> "idle", attempt |-> 0, requests |-> 0, waited |-> <<>>]
FirstFetch == [phase |-> "request", attempt |-> 0, requests |-> 1, waited |-> <<>>]

\* the request in flight fails and the function waits, unless it was the last
Failed(f) ==
    IF f.attempt = Retries - 1 THEN [f EXCEPT !.phase = "failed"]
    ELSE [f EXCEPT !.phase = "backoff"]

\* the timer of the wait fires: the next attempt's request is issued
Retried(f) ==
    [phase |-> "request", attempt |-> f.attempt + 1, requests |-> f.requests + 1,
     waited |-> Append(f.waited, Delay(f.attempt))]

\* the request in flight and every one after it fail
RECURSIVE Exhausted(_)
Exhausted(f) ==
    IF f.phase = "failed" THEN f
    ELSE IF f.phase = "backoff" THEN Exhausted(Retried(f))
    ELSE Exhausted(Failed(f))

\* ---------------------------------------------------------------- collector
\* The popup of the extension (src/unnamed/part_001). A page address is a
\* song page u in 1..NumUrls or a page that is no song page.
NoSong == 0
Urls   == 1..NumUrls

\* A call of a handler: where it stands, the value it works on (the tab's
\* address or the index to delete), its local links array and the message
\* it showed.
NoJob == [op |-> "none", pc |-> "idle", arg |-> 0, links |-> <<>>, msg |-> "none"]

Includes(links, url) == \E i \in 1..Len(links) : links[i] = url

\* addLink() between storage.get and storage.set: the local array and
\* whether the handler goes on to write it
AddLinkUnchecked(links, url) == [links |-> Append(links, url), write |-> TRUE]

AddLinkCheck(links, url) ==
    IF Includes(links, url) THEN [links |-> links, write |-> FALSE]
    ELSE [links |-> Append(links, url), write |-> TRUE]

\* links.splice(index, 1) for an index >= 0
Splice1(links, index) ==
    IF index < Len(links) THEN Without(links, index + 1) ELSE links

\* ---------------------------------------------------------------- share
\* getShareUrl(). The answer of /api/save-playlist: the request fails at the
\* network level (fetch rejects), or a response arrives with a success or
\* an error status and a body that is no JSON text, the JSON text null, an
\* object without id or an object with an id.
Answers == {[status |-> "network", body |-> "none"]}
           \cup [status : {"ok", "error"}, body : {"notJson", "null", "noId", "id"}]
NoAnswer == [status |-> "none", body |-> "none"]
NoUrl    == [kind |-> "none", path |-> "", p |-> Absent]
NoShare  == [pc |-> "idle", answer |-> NoAnswer, url |-> NoUrl]

\* `${origin}${pathname}?p=${compressToEncodedURIComponent(uuids.join(','))}`
CompactUrl(pl, tr, a) ==
    [kind |-> "compact", path |-> a.path, p |-> Compress(JoinUuids(UuidsOf(pl, tr)))]

\* `${origin}/p/${data.id}`: "undefined" is what the template makes of a
\* missing id
ShortUrl(id) == [kind |-> "short", path |-> id, p |-> Absent]

\* getShareUrl() from the answer on: the statements of the try block after
\* the fetch, and the catch block; threw is the TypeError of t.uuid for an
\* undefined entry, raised in the catch block
ShareUrl(pl, tr, a, answer) ==
    IF answer.status = "network" \/ answer.body \in {"notJson", "null"}
    THEN IF HasUndef(pl) THEN [threw |-> TRUE, url |-> NoUrl]
         ELSE [threw |-> FALSE, url |-> CompactUrl(pl, tr, a)]
    ELSE [threw |-> FALSE,
          url |-> ShortUrl(IF answer.body = "id" THEN "id" ELSE "undefined")]

\* ---------------------------------------------------------------- initial state
\* The state init() leaves when the page is opened at address a.
Opened(a) ==
    /\ address = a
    /\ linksInput = LoadFromURL(a).lines
    /\ startup = LoadFromURL(a).startup
    /\ playlist = <<>>
    /\ originalPlaylist = <<>>
    /\ currentIndex = 0
    /\ isPlaying = FALSE
    /\ shuffleMode = FALSE
    /\ repeatMode = "none"
    /\ loadingStates = [u \in UUIDs |-> NoState]
    /\ tracks = [id \in TrackIds |-> NoTrack]
    /\ pc = [l \in Loads |-> "unused"]
    /\ rest = [l \in Loads |-> <<>>]
    /\ pending = {}
    /\ superseded = {}
    /\ audio = "dead"
    /\ draggedIndex = NoDrag
    /\ rendered = 0
    /\ preShuffle = NoShuffle
    /\ now = 1
    /\ fetches = [k \in Loads \X TrackIds |-> NoFetch]
    /\ stock = [links |-> <<>>, shown |-> 0]
    /\ jobs = [j \in 1..MaxJobs |-> NoJob]
    /\ call = NoCall
    /\ share = NoShare
    /\ lastOp = "other"

Init == Opened(NoQuery) /\ storage = NoStorage

\* ---------------------------------------------------------------- transport
\* nextBtn click / KeyN
PlayNext ==
    /\ SetTransport(PlayNextOp(playlist, draggedIndex, repeatMode, Transport))
    /\ lastOp' = Tag("next")
    /\ UNCHANGED <<address, linksInput, startup, preShuffle>>
    /\ UNCHANGED <<storage, now, fetches, collector, share>>
    /\ UNCHANGED <<playlist, originalPlaylist, shuffleMode, repeatMode, loadingStates,
                   tracks, pc, rest, pending, superseded, draggedIndex>>

\* prevBtn click / KeyP
PlayPrevious ==
    /\ SetTransport(PlayPreviousOp(playlist, draggedIndex, repeatMode, Transport))
    /\ lastOp' = Tag("previous")
    /\ UNCHANGED <<address, linksInput, startup, preShuffle>>
    /\ UNCHANGED <<storage, now, fetches, collector, share>>
    /\ UNCHANGED <<playlist, originalPlaylist, shuffleMode, repeatMode, loadingStates,
                   tracks, pc, rest, pending, superseded, draggedIndex>>

\* playBtn click / Space: togglePlay()
TogglePlay ==
    /\ SetTransport(IF isPlaying THEN Pause(Transport) ELSE Play(playlist, Transport))
    /\ lastOp' = Tag("play")
    /\ UNCHANGED <<address, linksInput, startup, preShuffle>>
    /\ UNCHANGED <<storage, now, fetches, collector, share>>
    /\ UNCHANGED <<playlist, originalPlaylist, shuffleMode, repeatMode, loadingStates,
                   tracks, pc, rest, pending, superseded, draggedIndex>>

\* click on a rendered .playlist-item: loadTrack(index); play()
ClickItem(i) ==
    /\ i < rendered
    /\ LET s1 == LoadTrack(i, playlist, draggedIndex, Transport) IN
       SetTransport(IF s1.threw THEN s1 ELSE Play(playlist, s1))
    /\ lastOp' = Tag("play")
    /\ UNCHANGED <<address, linksInput, startup, preShuffle>>
    /\ UNCHANGED <<storage, now, fetches, collector, share>>
    /\ UNCHANGED <<playlist, originalPlaylist, shuffleMode, repeatMode, loadingStates,
                   tracks, pc, rest, pending, superseded, draggedIndex>>

\* repeatBtn click: toggleRepeat()
ToggleRepeat ==
    /\ repeatMode' = CASE repeatMode = "none" -> "all"
                       [] repeatMode = "all"  -> "one"
                       [] OTHER               -> "none"
    /\ lastOp' = Tag("repeat")
    /\ UNCHANGED <<address, linksInput, startup, preShuffle>>
    /\ UNCHANGED <<storage, now, fetches, collector, share>>
    /\ UNCHANGED <<playlist, originalPlaylist, currentIndex, isPlaying, shuffleMode,
                   loadingStates, tracks, pc, rest, pending, superseded, audio,
                   draggedIndex, rendered>>

\* The orders Array.prototype.sort can leave behind with the comparator
\* () => Math.random() - 0.5: any arrangement of the defined entries, the
\* undefined ones after them.
Defined(pl) == SelectSeq(pl, LAMBDA x : x # Undef)
Undefs(pl)  == SelectSeq(pl, LAMBDA x : x = Undef)
Arrangements(q) ==
    {[i \in 1..Len(q) |-> q[f[i]]] :
        f \in {g \in [1..Len(q) -> 1..Len(q)] :
                  \A a, b \in 1..Len(q) : a # b => g[a] # g[b]}}
SortRandom(pl) == {a \o Undefs(pl) : a \in Arrangements(Defined(pl))}

\* "this.originalPlaylist = this.playlist": the array that is sorted next
SavedOrderAliased(pl, sorted) == sorted

\* [...this.playlist], taken before the sort
SavedOrder(pl, sorted) == pl

\* shuffleBtn click: toggleShuffle()
ToggleShuffle ==
    /\ shuffleMode' = ~shuffleMode
    /\ IF ~shuffleMode
       THEN /\ playlist' \in SortRandom(playlist)
            /\ originalPlaylist' = SavedOrder(playlist, playlist')
       ELSE /\ playlist' = originalPlaylist
            /\ UNCHANGED originalPlaylist
    /\ LET s0 == [Transport EXCEPT !.ci = 0]
           s1 == RenderPlaylist(playlist', draggedIndex, FALSE, s0)
       IN SetTransport(IF s1.threw THEN s1
                       ELSE LoadTrack(0, playlist', draggedIndex, s1))
    /\ preShuffle' = IF ~shuffleMode
                      THEN [pl |-> UuidsOf(playlist, tracks),
                            cur |-> CurUuid(playlist, tracks, currentIndex),
                            touched |-> FALSE]
                      ELSE NoShuffle
    \* "shuffleBack": disabled right after it was enabled
    /\ lastOp' = Tag(IF ~shuffleMode THEN "shuffleOn"
                     ELSE IF lastOp = "shuffleOn" THEN "shuffleBack" ELSE "shuffleOff")
    /\ UNCHANGED <<address, linksInput, startup>>
    /\ UNCHANGED <<storage, now, fetches, collector, share>>
    /\ UNCHANGED <<repeatMode, loadingStates, tracks, pc, rest, pending, superseded,
                   draggedIndex>>

\* clearBtn click: clearPlaylist(); ok is the answer to confirm('Clear?')
ClearPlaylist(ok) ==
    /\ IF ok
       THEN /\ playlist' = <<>>
            /\ SetTransport(RenderPlaylist(<<>>, draggedIndex, FALSE, Transport))
       ELSE UNCHANGED <<playlist, currentIndex, isPlaying, audio, rendered>>
    /\ preShuffle' = IF ok THEN Touched ELSE preShuffle
    /\ lastOp' = Tag("clear")
    /\ UNCHANGED <<address, linksInput, startup>>
    /\ UNCHANGED <<storage, now, fetches, collector, share>>
    /\ UNCHANGED <<originalPlaylist, shuffleMode, repeatMode, loadingStates, tracks,
                   pc, rest, pending, superseded, draggedIndex>>

\* ---------------------------------------------------------------- drag and drop
\* dragstart on a rendered item
DragStart(i) ==
    /\ i < rendered
    /\ draggedIndex' = i
    /\ lastOp' = Tag("drag")
    /\ UNCHANGED <<address, linksInput, startup, preShuffle>>
    /\ UNCHANGED <<storage, now, fetches, collector, share>>
    /\ UNCHANGED <<playlist, originalPlaylist, currentIndex, isPlaying, shuffleMode,
                   repeatMode, loadingStates, tracks, pc, rest, pending, superseded,
                   audio, rendered>>

\* dragend
DragEnd ==
    /\ draggedIndex # NoDrag
    /\ draggedIndex' = NoDrag
    /\ lastOp' = Tag("drag")
    /\ UNCHANGED <<address, linksInput, startup, preShuffle>>
    /\ UNCHANGED <<storage, now, fetches, collector, share>>
    /\ UNCHANGED <<playlist, originalPlaylist, currentIndex, isPlaying, shuffleMode,
                   repeatMode, loadingStates, tracks, pc, rest, pending, superseded,
                   audio, rendered>>

\* a.splice(i, 1): the remaining array and the removed element
SpliceOut(pl, i) ==
    IF i < Len(pl)
    THEN [arr |-> SubSeq(pl, 1, i) \o SubSeq(pl, i + 2, Len(pl)), el |-> pl[i + 1]]
    ELSE [arr |-> pl, el |-> Undef]

\* a.splice(i, 0, x)
SpliceIn(pl, i, x) ==
    LET j == IF i > Len(pl) THEN Len(pl) ELSE i
    IN SubSeq(pl, 1, j) \o <<x>> \o SubSeq(pl, j + 1, Len(pl))

\* playlist.findIndex(t => t.uuid === u): the index, -1 when there is none,
\* -2 when t.uuid is evaluated on an undefined entry first (TypeError)
FindIndex(pl, tr, u) ==
    LET hits == {i \in 1..Len(pl) : pl[i] # Undef /\ tr[pl[i]].uuid = u}
        bad  == {i \in 1..Len(pl) : pl[i] = Undef}
        Min(S) == CHOOSE m \in S : \A n \in S : m <= n
    IN IF hits = {}
       THEN (IF bad = {} THEN -1 ELSE -2)
       ELSE IF bad # {} /\ Min(bad) < Min(hits) THEN -2 ELSE Min(hits) - 1

\* reorderPlaylist(fromIndex, toIndex); w is whether the localStorage.setItem
\* of its autoSave() succeeds
ReorderPlaylist(from, to, w) ==
    IF from = to \/ from < 0 \/ to < 0
    THEN UNCHANGED <<playlist, originalPlaylist, currentIndex, rendered, address,
                     linksInput, storage>>
    ELSE LET cur     == IF currentIndex < Len(playlist)
                        THEN playlist[currentIndex + 1] ELSE Undef
             curUuid == IF cur = Undef THEN 0 ELSE tracks[cur].uuid
             out     == SpliceOut(playlist, from)
             new     == SpliceIn(out.arr, to, out.el)
             found   == IF curUuid = 0 THEN -1 ELSE FindIndex(new, tracks, curUuid)
         IN /\ playlist' = new
            /\ originalPlaylist' = new
            /\ currentIndex' = IF found >= 0 THEN found ELSE currentIndex
            \* renderPlaylist(true), in the try block or in the catch block
            /\ rendered' = IF HasUndef(new) THEN rendered ELSE Len(new)
            \* updateURL(); syncInputToPlaylist(): reached when nothing threw
            /\ address' = IF HasUndef(new) THEN address ELSE UpdateURL(new, tracks, address)
            /\ linksInput' = IF HasUndef(new) THEN linksInput ELSE UuidsOf(new, tracks)
            \* autoSave(), after them
            /\ storage' = IF HasUndef(new) THEN storage
                          ELSE SaveCurrent(storage, Snapshot(new, tracks), FALSE, w).st

\* drop on a rendered item (target < rendered) or on the container (target = rendered)
DropW(target, w) ==
    /\ draggedIndex # NoDrag
    /\ target <= rendered
    /\ draggedIndex < Len(playlist) \/ Len(playlist) < MaxLen
    /\ draggedIndex' = NoDrag
    /\ LET to == IF target < rendered THEN target ELSE Len(playlist) - 1
       IN IF to # draggedIndex
          THEN ReorderPlaylist(draggedIndex, to, w)
          ELSE UNCHANGED <<playlist, originalPlaylist, currentIndex, rendered, address,
                           linksInput, storage>>
    \* "reorder": reorderPlaylist ran with distinct indices inside the playlist
    /\ LET to == IF target < rendered THEN target ELSE Len(playlist) - 1
       IN lastOp' = Tag(IF to # draggedIndex /\ to >= 0 /\ to < Len(playlist)
                           /\ draggedIndex < Len(playlist)
                        THEN "reorder" ELSE "drop")
    /\ UNCHANGED <<startup, preShuffle, now, fetches, collector, share>>
    /\ UNCHANGED <<isPlaying, shuffleMode, repeatMode, loadingStates, tracks, pc, rest,
                   pending, superseded, audio>>

\* a drop while localStorage accepts what is written to it
Drop(target) == DropW(target, TRUE)

\* ---------------------------------------------------------------- media element
\* the promise returned by audioPlayer.play() is fulfilled
PlayResolved ==
    /\ audio = "starting"
    /\ audio' = "playing"
    /\ isPlaying' = TRUE
    /\ lastOp' = Tag("playing")
    /\ UNCHANGED <<address, linksInput, startup, preShuffle>>
    /\ UNCHANGED <<storage, now, fetches, collector, share>>
    /\ UNCHANGED <<playlist, originalPlaylist, currentIndex, shuffleMode, repeatMode,
                   loadingStates, tracks, pc, rest, pending, superseded, draggedIndex,
                   rendered>>

\* 'ended' listener
EndedOp(pl, drag, rep, s) ==
    IF rep = "one" THEN Play(pl, s) ELSE PlayNextOp(pl, drag, rep, s)

AudioEnded ==
    /\ audio = "playing"
    /\ SetTransport(EndedOp(playlist, draggedIndex, repeatMode,
                            [Transport EXCEPT !.audio = "ready"]))
    /\ lastOp' = Tag("ended")
    /\ UNCHANGED <<address, linksInput, startup, preShuffle>>
    /\ UNCHANGED <<storage, now, fetches, collector, share>>
    /\ UNCHANGED <<playlist, originalPlaylist, shuffleMode, repeatMode, loadingStates,
                   tracks, pc, rest, pending, superseded, draggedIndex>>

\* handleError(e) replaying the track when repeatMode is one, as 'ended' does
HandleErrorRepeat(pl, drag, rep, s) ==
    IF rep = "one" THEN Play(pl, s) ELSE PlayNextOp(pl, drag, rep, s)

\* handleError(e)
HandleError(pl, drag, rep, s) == PlayNextOp(pl, drag, rep, s)

\* 'error' listener
AudioError ==
    /\ audio \in {"ready", "starting", "playing"}
    /\ SetTransport(HandleError(playlist, draggedIndex, repeatMode,
                                [Transport EXCEPT !.audio = "dead"]))
    /\ lastOp' = Tag("error")
    /\ UNCHANGED <<address, linksInput, startup, preShuffle>>
    /\ UNCHANGED <<storage, now, fetches, collector, share>>
    /\ UNCHANGED <<playlist, originalPlaylist, shuffleMode, repeatMode, loadingStates,
                   tracks, pc, rest, pending, superseded, draggedIndex>>

\* ---------------------------------------------------------------- load
\* The part of the state the extraction loop of loadPlaylist() writes.
Extraction == [pl |-> playlist, ls |-> loadingStates, tr |-> tracks]

\* number of track objects load l has created
Created(l, tr) == Cardinality({id \in IdsOf(l) : tr[id].uuid # 0})

\* this.playlist.push({uuid, ...}); this.loadingStates.set(uuid, 'loading')
Push(l, e, u) ==
    LET id == (l - 1) * MaxLines + Created(l, e.tr) + 1
    IN [pl |-> Append(e.pl, id),
        ls |-> [e.ls EXCEPT ![u] = [st |-> "loading", by |-> 0]],
        tr |-> [e.tr EXCEPT ![id] = [uuid |-> u, mp3Url |-> Mp3Url(u),
                                     title |-> "placeholder",
                                     artist |-> "Loading",
                                     thumbnail |-> "none",
                                     isLiked |-> IsTrackLiked(storage, u).ret = 1,
                                     by |-> 0]]]

\* The for loop of loadPlaylist() from the given lines on, up to the next
\* await of resolveShortLink or to the end of the input.
\* threw: isTrackLiked() raised while the object to push was being built.
RECURSIVE Extract(_, _, _)
Extract(l, e, lines) ==
    IF lines = <<>> THEN [e |-> e, rest |-> <<>>, wait |-> FALSE, threw |-> FALSE]
    ELSE IF Head(lines) = Short
    THEN [e |-> e, rest |-> Tail(lines), wait |-> TRUE, threw |-> FALSE]
    ELSE IF Head(lines) = Garbage THEN Extract(l, e, Tail(lines))
    ELSE IF IsTrackLiked(storage, Head(lines)).threw
    THEN [e |-> e, rest |-> <<>>, wait |-> FALSE, threw |-> TRUE]
    ELSE Extract(l, Push(l, e, Head(lines)), Tail(lines))

\* loadPlaylist() after an Extract: suspended at the await, or past the loop.
AfterExtract(l, x) ==
    /\ Len(x.e.pl) <= MaxLen
    /\ playlist' = x.e.pl
    /\ loadingStates' = x.e.ls
    /\ tracks' = x.e.tr
    /\ rest' = [rest EXCEPT ![l] = x.rest]
    /\ preShuffle' = Touched
    /\ UNCHANGED <<address, storage, now, collector, share>>
    /\ IF x.threw
       THEN /\ pc' = [pc EXCEPT ![l] = "rejected"]
            /\ lastOp' = Tag("load")
            /\ UNCHANGED <<currentIndex, isPlaying, audio, rendered, pending, fetches>>
       ELSE IF x.wait
       THEN /\ pc' = [pc EXCEPT ![l] = "resolving"]
            /\ lastOp' = Tag("load")
            /\ UNCHANGED <<currentIndex, isPlaying, audio, rendered, pending, fetches>>
       ELSE IF x.e.pl = <<>>
       THEN \* toast: no valid links
            /\ pc' = [pc EXCEPT ![l] = "aborted"]
            /\ lastOp' = Tag("noValidLinks")
            /\ UNCHANGED <<currentIndex, isPlaying, audio, rendered, pending, fetches>>
       ELSE LET s1 == RenderPlaylist(x.e.pl, draggedIndex, FALSE, Transport)
                s2 == IF s1.threw THEN s1 ELSE LoadTrack(0, x.e.pl, draggedIndex, s1)
            IN /\ SetTransport(s2)
               /\ lastOp' = Tag("load")
               /\ IF s2.threw
                  THEN /\ pc' = [pc EXCEPT ![l] = "rejected"]
                       /\ UNCHANGED <<pending, fetches>>
                  ELSE \* this.playlist.map(async (track) => ...): one lookup per
                       \* entry; track.uuid of an undefined entry rejects the load
                       /\ pending' = pending \cup
                              {<<l, x.e.pl[i]>> : i \in {j \in 1..Len(x.e.pl) : x.e.pl[j] # Undef}}
                       \* fetchSongMetadata() runs up to its first await
                       /\ fetches' = [k \in Loads \X TrackIds |->
                              IF k[1] = l /\ \E i \in 1..Len(x.e.pl) : x.e.pl[i] = k[2]
                              THEN FirstFetch ELSE fetches[k]]
                       /\ pc' = [pc EXCEPT ![l] =
                                    IF HasUndef(x.e.pl) THEN "rejected" ELSE "fetching"]

\* loadPlaylist() up to its first await, or to its end, on the given
\* non-empty lines
LoadPlaylist(lines) ==
    LET l == Cardinality({k \in Loads : pc[k] # "unused"}) + 1 IN
    /\ l \in Loads
    /\ superseded' = superseded \cup {<<k, l>> : k \in {j \in Loads : \E t \in TrackIds : <<j, t>> \in pending}}
    /\ AfterExtract(l, Extract(l, [pl |-> <<>>, ls |-> [u \in UUIDs |-> NoState],
                                   tr |-> tracks], lines))
    /\ UNCHANGED <<originalPlaylist, shuffleMode, repeatMode, draggedIndex>>

\* the user puts the given lines in linksInput and clicks loadBtn
LoadStart(lines) ==
    /\ LoadPlaylist(lines)
    /\ linksInput' = lines
    /\ UNCHANGED startup

\* the timer set by loadFromURL() or loadFromShortUrl() fires
TimerLoad ==
    /\ startup = "timer"
    /\ startup' = "idle"
    /\ LoadPlaylist(linksInput)
    /\ UNCHANGED linksInput

\* the fetch of loadFromShortUrl() returns: uuids is data.uuids, ok is false
\* for a failed request or a body without uuids
ShortUrlResponse(ok, uuids) ==
    /\ startup = "fetching"
    /\ IF ok /\ Len(uuids) > 0
       THEN /\ linksInput' = uuids
            /\ startup' = "timer"
       ELSE /\ UNCHANGED linksInput
            /\ startup' = "idle"
    /\ lastOp' = Tag("shortUrl")
    /\ UNCHANGED <<playlist, originalPlaylist, currentIndex, isPlaying, shuffleMode,
                   repeatMode, loadingStates, tracks, pc, rest, pending, superseded,
                   audio, draggedIndex, rendered, address, preShuffle>>
    /\ UNCHANGED <<storage, now, fetches, collector, share>>

\* resolveShortLink() returns to load l: r is data.uuid, 0 is null
ResolveReturn(l, r) ==
    /\ pc[l] = "resolving"
    /\ AfterExtract(l, Extract(l, Extraction, IF r = 0 THEN rest[l] ELSE <<r>> \o rest[l]))
    /\ UNCHANGED <<originalPlaylist, shuffleMode, repeatMode, superseded, draggedIndex,
                   linksInput, startup>>

\* the request in flight of fetchSongMetadata() for track object t of load l
\* fails and the function starts its wait
RequestFails(l, t) ==
    /\ <<l, t>> \in pending
    /\ fetches[<<l, t>>].phase = "request"
    /\ fetches[<<l, t>>].attempt < Retries - 1
    /\ fetches' = [fetches EXCEPT ![<<l, t>>] = Failed(@)]
    /\ lastOp' = Tag("requestFails")
    /\ UNCHANGED <<playlist, originalPlaylist, currentIndex, isPlaying, shuffleMode,
                   repeatMode, loadingStates, tracks, pc, rest, pending, superseded,
                   audio, draggedIndex, rendered, address, linksInput, startup,
                   preShuffle, storage, now, collector, share>>

\* the timer of the wait fires and the next request is issued
BackoffElapsed(l, t) ==
    /\ fetches[<<l, t>>].phase = "backoff"
    /\ fetches' = [fetches EXCEPT ![<<l, t>>] = Retried(@)]
    /\ lastOp' = Tag("backoffElapsed")
    /\ UNCHANGED <<playlist, originalPlaylist, currentIndex, isPlaying, shuffleMode,
                   repeatMode, loadingStates, tracks, pc, rest, pending, superseded,
                   audio, draggedIndex, rendered, address, linksInput, startup,
                   preShuffle, storage, now, collector, share>>

\* The callback of loadPlaylist() on the value fetchSongMetadata() returned
\* to load l: ok is meta && meta.title.
MetaCallbackErasing(track, ok, l) ==
    IF ok THEN [track EXCEPT !.title = "resolved", !.artist = "resolved",
                             !.thumbnail = "resolved", !.by = l]
    ELSE [track EXCEPT !.title = "Error", !.artist = "Error", !.by = l]

MetaCallback(track, ok, l) ==
    IF ok THEN [track EXCEPT !.title = "resolved", !.artist = "resolved",
                             !.thumbnail = "resolved", !.by = l]
    ELSE [track EXCEPT !.artist = "Error", !.by = l]

\* fetchSongMetadata() of load l for track object t returns, with a title
\* from the request in flight (ok) or after that request and every one
\* after it failed: the callback of loadPlaylist() runs, and after the last
\* one the code after Promise.all; w is whether the localStorage.setItem of
\* its autoSave() succeeds.
LookupDoneW(l, t, ok, w) ==
    /\ <<l, t>> \in pending
    /\ ok => fetches[<<l, t>>].phase = "request"
    /\ fetches' = [fetches EXCEPT ![<<l, t>>] =
                     IF ok THEN [@ EXCEPT !.phase = "returned"] ELSE Exhausted(@)]
    /\ pending' = pending \ {<<l, t>>}
    /\ tracks' = [tracks EXCEPT ![t] = MetaCallback(@, ok, l)]
    /\ loadingStates' = [loadingStates EXCEPT ![tracks[t].uuid] =
                            [st |-> IF ok THEN "loaded" ELSE "error", by |-> l]]
    /\ LET s1 == RenderPlaylist(playlist, draggedIndex, FALSE, Transport)
           \* this.playlist[this.currentIndex].uuid
           threw == \/ s1.threw
                    \/ currentIndex >= Len(playlist)
                    \/ playlist[currentIndex + 1] = Undef
       IN /\ rendered' = s1.rendered
          /\ pc' = [pc EXCEPT ![l] =
                      IF @ # "fetching" THEN @
                      ELSE IF threw THEN "rejected"
                      ELSE IF \E u \in TrackIds : <<l, u>> \in pending' THEN @
                      ELSE "done"]
    \* after Promise.all: updateURL()
    /\ address' = IF pc'[l] = "done" /\ pc[l] # "done"
                  THEN UpdateURL(playlist, tracks, address) ELSE address
    \* autoSave()
    /\ storage' = IF pc'[l] = "done" /\ pc[l] # "done"
                  THEN SaveCurrent(storage, Snapshot(playlist, tracks'),
                                   HasUndef(playlist), w).st
                  ELSE storage
    /\ lastOp' = Tag("lookup")
    /\ UNCHANGED <<linksInput, startup, preShuffle, now, collector, share>>
    /\ UNCHANGED <<playlist, originalPlaylist, currentIndex, isPlaying, shuffleMode,
                   repeatMode, rest, superseded, audio, draggedIndex>>

\* a lookup returning while localStorage accepts what is written to it
LookupDone(l, t, ok) == LookupDoneW(l, t, ok, TRUE)

\* ---------------------------------------------------------------- specifications
Slots == 0..(MaxLen - 1)

\* The player: loads with their suspension points, the transport controls
\* and the media element's events.
Next ==
    \/ \E lines \in InputsOver({1, Short}) \cup {<<Garbage>>} : LoadStart(lines)
    \/ \E l \in Loads, r \in {0, 1} : ResolveReturn(l, r)
    \/ PlayNext
    \/ PlayPrevious
    \/ TogglePlay
    \/ \E i \in Slots : ClickItem(i)
    \/ ToggleRepeat
    \/ \E ok \in BOOLEAN : ClearPlaylist(ok)
    \/ PlayResolved
    \/ AudioEnded
    \/ AudioError

Spec == Init /\ [][Next]_vars

\* The metadata pipeline: loads, their lookups returning in any order, and
\* the playlist emptied meanwhile.
NextMeta ==
    \/ \E lines \in InputsOver({1}) \cup {<<Short>>, <<1, Short>>} : LoadStart(lines)
    \/ \E l \in Loads, r \in {0, 1} : ResolveReturn(l, r)
    \/ \E l \in Loads, t \in TrackIds, ok \in BOOLEAN : LookupDone(l, t, ok)
    \/ \E ok \in BOOLEAN : ClearPlaylist(ok)

SpecMeta == Init /\ [][NextMeta]_vars

\* Shuffle: loads that extract without suspending, shuffle, drag and drop,
\* the moves of the cursor and the playlist emptied.
NextShuffle ==
    \/ \E lines \in {<<1, 2>>, <<2, 1, 1>>} : LoadStart(lines)
    \/ ToggleShuffle
    \/ \E i \in Slots : DragStart(i)
    \/ DragEnd
    \/ \E target \in 0..MaxLen : Drop(target)
    \/ PlayNext
    \/ PlayPrevious
    \/ \E ok \in BOOLEAN : ClearPlaylist(ok)

SpecShuffle == Init /\ [][NextShuffle]_vars

\* Drag and drop against loads, a suspended load among them, and the media
\* element failing.
NextDrag ==
    \/ \E lines \in {<<1, 2>>, <<1, 1, 2>>, <<1, Short>>} : LoadStart(lines)
    \/ \E l \in Loads, r \in {0, 1} : ResolveReturn(l, r)
    \/ \E i \in Slots : DragStart(i)
    \/ DragEnd
    \/ \E target \in 0..MaxLen : Drop(target)
    \/ PlayNext
    \/ AudioError

SpecDrag == Init /\ [][NextDrag]_vars

\* The addresses the page is opened at: joined identifier lists (the empty
\* list among them) and short arbitrary strings, compressed under p or plain
\* under tracks, with or without a short-identifier path.
Lists   == UNION {[1..n -> UUIDs] : n \in 0..MaxLines}
Strings == {JoinUuids(l) : l \in Lists}
           \cup UNION {[1..n -> UUIDs \cup {Comma, Junk}] : n \in 0..MaxStr}
PValues == {Absent, Text(<<>>), Corrupt} \cup {Compress(str) : str \in Strings}
TValues == {Absent} \cup {Text(str) : str \in Strings}
Addresses == [path : {"/", "/p/x"}, p : PValues, tracks : TValues]

InitURL == \E a \in Addresses : Opened(a) /\ storage = NoStorage

\* Startup: the page opened at an address, the load it schedules and the
\* lookups of that load.
NextURL ==
    \/ TimerLoad
    \/ \E ok \in BOOLEAN, uuids \in Lists : ShortUrlResponse(ok, uuids)
    \/ \E l \in Loads, t \in TrackIds, ok \in BOOLEAN : LookupDone(l, t, ok)
    \/ PlayNext

SpecURL == InitURL /\ [][NextURL]_vars

\* The address bar: loads that run to their end with lookups that succeed,
\* shuffle, drag and drop and the moves of the cursor.
NextShare ==
    \/ \E lines \in {<<1, 2>>, <<2>>} : LoadStart(lines)
    \/ \E l \in Loads, t \in TrackIds : LookupDone(l, t, TRUE)
    \/ ToggleShuffle
    \/ \E i \in Slots : DragStart(i)
    \/ DragEnd
    \/ \E target \in 0..MaxLen : Drop(target)
    \/ PlayNext
    \/ PlayPrevious

SpecShare == Init /\ [][NextShare]_vars

\* ---------------------------------------------------------------- properties
\* a loadPlaylist() call is between its "this.playlist = []" and its loadTrack(0)
MidLoad == \E l \in Loads : pc[l] = "resolving"

\* the track objects load l has created, in the order of their creation
OwnTracks(l, tr) == [i \in 1..Created(l, tr) |-> (l - 1) * MaxLines + i]

\* C1: whenever the playlist is non-empty, 0 <= currentIndex < playlist length,
\* also at the suspension points of a load that is still extracting.
C1_CursorInRange ==
    playlist # <<>> => (0 <= currentIndex /\ currentIndex < Len(playlist))

\* C2: the player is never Playing (isPlaying) with an empty playlist.
C2_NeverPlayingEmpty == ~(isPlaying /\ playlist = <<>>)

\* C3: a load that runs to the no-valid-links condition leaves the playlist,
\* the cursor, isPlaying, the shuffle mode and the repeat mode as they were
\* before the load (stated for a load that starts and ends in one step).
C3_NoValidLinksKeepsState ==
    [][\A l \in Loads :
          (pc[l] = "unused" /\ pc'[l] = "aborted" /\ lastOp' = "noValidLinks")
          => UNCHANGED <<playlist, currentIndex, isPlaying, shuffleMode, repeatMode>>]_vars

\* C4: when a load finishes extracting, the playlist's identifier sequence is
\* the sequence of identifiers accepted from that load's own input.
C4_LoadReplacesPlaylist ==
    [][\A l \in Loads :
          (pc[l] \in {"unused", "resolving"} /\ pc'[l] \in {"fetching", "rejected", "aborted"})
          => UuidsOf(playlist', tracks') = UuidsOf(OwnTracks(l, tracks'), tracks')]_vars

\* C5: once load l has started while lookups of load k were pending, no field
\* and no resolution state of a track of l in the playlist is written by a
\* lookup of k.
C5_SupersededNeverWrites ==
    \A i \in 1..Len(playlist) : \A k \in Loads :
        (playlist[i] # Undef /\ <<k, Owner(playlist[i])>> \in superseded)
        => /\ tracks[playlist[i]].by # k
           /\ loadingStates[tracks[playlist[i]].uuid].by # k

\* C6: no next or previous transition runs while a load is between replacing
\* the playlist and setting the cursor to 0.
C6_TransitionsAtomic ==
    [][MidLoad => lastOp' \notin {"next", "previous"}]_vars

\* C7: next() on a non-empty playlist advances the cursor when
\* currentIndex + 1 < length, wraps to 0 from the last index when
\* repeatMode = all, and changes neither the playlist nor the modes.
C7_NextAdvancesOrWraps ==
    [][(lastOp' = "next" /\ playlist # <<>>)
       => /\ currentIndex + 1 < Len(playlist) => currentIndex' = currentIndex + 1
          /\ (currentIndex = Len(playlist) - 1 /\ repeatMode = "all") => currentIndex' = 0
          /\ (currentIndex + 1 < Len(playlist)
              \/ (currentIndex = Len(playlist) - 1 /\ repeatMode = "all"))
             => UNCHANGED <<playlist, originalPlaylist, shuffleMode, repeatMode>>]_vars

\* C7 witness: next() has just wrapped from the last index of a playlist of
\* several tracks to 0 (from index 0 of such a playlist next() yields 1).
C7_Witness ==
    /\ lastOp = "next"
    /\ Len(playlist) >= 2
    /\ currentIndex = 0
    /\ repeatMode = "all"

\* C8: next() at the last index with repeatMode other than all leaves the
\* cursor where it is and leaves the player Paused.
C8_NextAtEndPauses ==
    [][(lastOp' = "next" /\ playlist # <<>> /\ currentIndex = Len(playlist) - 1
        /\ repeatMode # "all")
       => (currentIndex' = currentIndex /\ isPlaying' = FALSE)]_vars

\* C9: previous() on a non-empty playlist moves the cursor to currentIndex - 1
\* when currentIndex > 0; at 0 it wraps to length - 1 when repeatMode = all
\* and otherwise stays at 0.
C9_PreviousSymmetric ==
    [][(lastOp' = "previous" /\ playlist # <<>>)
       => /\ currentIndex > 0 => currentIndex' = currentIndex - 1
          /\ (currentIndex = 0 /\ repeatMode = "all") => currentIndex' = Len(playlist) - 1
          /\ (currentIndex = 0 /\ repeatMode # "all") => currentIndex' = 0]_vars

\* C10: on track-ended with repeatMode = one the cursor is unchanged, playback
\* of the track is requested again and the player stays Playing; with any
\* other repeat mode the resulting state is the one next() produces.
C10_EndedRepeatsOrAdvances ==
    [][lastOp' = "ended"
       => IF repeatMode = "one"
          THEN /\ currentIndex' = currentIndex
               /\ audio' = "starting"
               /\ isPlaying'
          ELSE LET s == PlayNextOp(playlist, draggedIndex, repeatMode,
                                   [Transport EXCEPT !.audio = "ready"])
               IN /\ currentIndex' = s.ci
                  /\ isPlaying' = s.playing
                  /\ audio' = s.audio
                  /\ UNCHANGED <<playlist, originalPlaylist, shuffleMode, repeatMode>>]_vars

\* C11: a media failure leaves the cursor, isPlaying, the playlist and the
\* modes as next() from the same state leaves them, in every repeat mode, and
\* the handler raises no error.
C11_ErrorIsNext ==
    [][lastOp' = "error"
       => LET s == PlayNextOp(playlist, draggedIndex, repeatMode, Transport)
              e == HandleError(playlist, draggedIndex, repeatMode,
                               [Transport EXCEPT !.audio = "dead"])
          IN /\ ~e.threw
             /\ currentIndex' = s.ci
             /\ isPlaying' = s.playing
             /\ rendered' = s.rendered
             /\ UNCHANGED <<playlist, originalPlaylist, shuffleMode, repeatMode>>]_vars

\* number of entries of the sequence q equal to u
CountOf(q, u) == Cardinality({i \in 1..Len(q) : q[i] = u})

\* C12: enabling shuffle and disabling it with no operation in between leaves
\* the identifier sequence of the playlist as it was before shuffle was enabled.
C12_ShuffleRestoresOrder ==
    [][lastOp' = "shuffleBack" => UuidsOf(playlist', tracks') = preShuffle.pl]_vars

\* C12 witness: shuffle was enabled and disabled at once on a playlist of
\* several tracks with different identifiers.
C12_Witness ==
    /\ lastOp = "shuffleBack"
    /\ Len(playlist) >= 2
    /\ \E i, j \in 1..Len(playlist) :
          UuidsOf(playlist, tracks)[i] # UuidsOf(playlist, tracks)[j]

\* C13: after toggleShuffle(); toggleShuffle() the cursor designates a track
\* with the identifier it designated before the two toggles.
C13_ShuffleRestoresCursor ==
    [][(lastOp' = "shuffleBack" /\ preShuffle.cur # 0)
       => CurUuid(playlist', tracks', currentIndex') = preShuffle.cur]_vars

\* C14: every toggleShuffle leaves the multiset of identifiers of the playlist
\* as it was just before the toggle.
C14_ShuffleKeepsMultiset ==
    [][lastOp' \in {"shuffleOn", "shuffleOff", "shuffleBack"}
       => \A u \in UUIDs \cup {0} :
             CountOf(UuidsOf(playlist', tracks'), u) = CountOf(UuidsOf(playlist, tracks), u)]_vars

\* C15: when shuffle is disabled and the playlist was neither loaded nor
\* emptied since shuffle was enabled, the order is the one shuffle was enabled on.
C15_PreShuffleOrderRetained ==
    [][(lastOp' \in {"shuffleOff", "shuffleBack"} /\ ~preShuffle.touched)
       => UuidsOf(playlist', tracks') = preShuffle.pl]_vars

\* C16: after reorderPlaylist(from, to) with distinct indices inside a
\* non-empty playlist, the track under the cursor has the identifier of the
\* track that was under the cursor before.
C16_ReorderKeepsCurrent ==
    [][(lastOp' = "reorder" /\ CurUuid(playlist, tracks, currentIndex) # 0)
       => CurUuid(playlist', tracks', currentIndex')
          = CurUuid(playlist, tracks, currentIndex)]_vars

\* init() has run and the load it may have scheduled has not started
FreshlyOpened == startup # "fetching" /\ \A l \in Loads : pc[l] = "unused"

\* the identifiers of the list us as strings
AsStrings(us) == [i \in 1..Len(us) |-> <<us[i]>>]

\* C17: the page opened at the token that encodes a list of identifiers (join
\* with ',' then compress) decodes it (decompress then split on ',') to the
\* same list, for lists with repeated identifiers, of length 1 and of length 0.
C17_RoundTrip ==
    \A list \in Lists :
        (FreshlyOpened
         /\ address = [path |-> "/", p |-> Compress(JoinUuids(list)), tracks |-> Absent])
        => /\ Decode(address) = [threw |-> FALSE, uuids |-> AsStrings(list)]
           /\ linksInput = list

\* C18: opened at an address with a value for the parameter tracks, the list
\* is the plain split of that value, also when the parameter p is in the
\* address too.
C18_LegacyWhenPresent ==
    (FreshlyOpened /\ address.path = "/" /\ Truthy(address.tracks))
    => /\ Decode(address) = [threw |-> FALSE, uuids |-> Split(address.tracks.s)]
       /\ linksInput = LinesOf(Split(address.tracks.s))

\* C18 amended: opened at an address whose parameter tracks has a non-empty
\* value and whose parameter p is absent or empty, the list is the plain split
\* of the value of tracks, and its load is scheduled.
C18_LegacyWhenNoP ==
    (FreshlyOpened /\ address.path = "/" /\ Truthy(address.tracks) /\ ~Truthy(address.p))
    => /\ Decode(address) = [threw |-> FALSE, uuids |-> Split(address.tracks.s)]
       /\ linksInput = LinesOf(Split(address.tracks.s))
       /\ startup = "timer"

\* C18 witness: opened at ?tracks=<v>,<u> with no p, linksInput holds v, u.
C18_Witness ==
    /\ FreshlyOpened
    /\ address = [path |-> "/", p |-> Absent, tracks |-> Text(<<2, Comma, 1>>)]
    /\ linksInput = <<2, 1>>
    /\ startup = "timer"

\* C19: opened at a token that is not the encoding of an identifier list, the
\* playlist, the cursor and the link input are as without it and no load is
\* scheduled.
C19_CorruptTokenIgnored ==
    (FreshlyOpened /\ address.path = "/" /\ Truthy(address.p)
     /\ address.p \notin {Compress(JoinUuids(list)) : list \in Lists})
    => /\ linksInput = <<>>
       /\ startup = "idle"
       /\ playlist = <<>>
       /\ currentIndex = 0

\* no loadPlaylist() call is between its start and its end
NoLoadInProgress == \A l \in Loads : pc[l] \notin {"resolving", "fetching"}

\* C20: whenever no load is in progress and the playlist is non-empty, the
\* token in the address bar decodes to the identifier sequence of the playlist.
C20_AddressReflectsPlaylist ==
    (NoLoadInProgress /\ playlist # <<>> /\ ~HasUndef(playlist))
    => /\ address.p.kind = "lz"
       /\ Split(address.p.s) = AsStrings(UuidsOf(playlist, tracks))

\* The metadata lookups of loads, request by request.
NextRetry ==
    \/ \E lines \in {<<1>>, <<2, 1>>} : LoadStart(lines)
    \/ \E l \in Loads, t \in TrackIds : RequestFails(l, t)
    \/ \E l \in Loads, t \in TrackIds : BackoffElapsed(l, t)
    \/ \E l \in Loads, t \in TrackIds, ok \in BOOLEAN : LookupDone(l, t, ok)

SpecRetry == Init /\ [][NextRetry]_vars

\* ---------------------------------------------------------------- collector: handlers
\* what the popup's handlers leave alone
outside == <<player, storage, now, call, share>>

\* the slot a new call takes: the first one with no call in progress
FreeSlot(j) ==
    /\ jobs[j].pc \in {"idle", "done"}
    /\ \A k \in 1..(j - 1) : jobs[k].pc \notin {"idle", "done"}

\* click on addBtn: addLink() up to await chrome.tabs.query
AddLinkClick(j) ==
    /\ FreeSlot(j)
    /\ jobs' = [jobs EXCEPT ![j] = [NoJob EXCEPT !.op = "addLink", !.pc = "query"]]
    /\ UNCHANGED <<stock, outside>>

\* chrome.tabs.query returns the active tab, at address url
TabsQueryReturns(j, url) ==
    /\ jobs[j].pc = "query"
    /\ jobs' = [jobs EXCEPT ![j] =
                  IF url = NoSong THEN [@ EXCEPT !.pc = "done", !.msg = "error"]
                  ELSE [@ EXCEPT !.pc = "get", !.arg = url]]
    /\ UNCHANGED <<stock, outside>>

\* click on the delete button of rendered item index: deleteLink(index) up
\* to await chrome.storage.local.get
DeleteLinkClick(j, index) ==
    /\ FreeSlot(j)
    /\ index < stock.shown
    /\ jobs' = [jobs EXCEPT ![j] = [NoJob EXCEPT !.op = "deleteLink", !.pc = "get",
                                                 !.arg = index]]
    /\ UNCHANGED <<stock, outside>>

\* click on clearBtn, confirmed: clearAll() up to await chrome.storage.local.set
ClearAllClick(j) ==
    /\ FreeSlot(j)
    /\ jobs' = [jobs EXCEPT ![j] = [NoJob EXCEPT !.op = "clearAll", !.pc = "set"]]
    /\ UNCHANGED <<stock, outside>>

\* chrome.storage.local.get returns to addLink() or deleteLink()
StorageGetReturns(j) ==
    /\ jobs[j].pc = "get"
    /\ LET job == jobs[j]
           c   == AddLinkCheck(stock.links, job.arg)
       IN jobs' = [jobs EXCEPT ![j] =
                     IF job.op = "addLink"
                     THEN IF c.write THEN [job EXCEPT !.pc = "set", !.links = c.links]
                          ELSE [job EXCEPT !.pc = "done", !.links = c.links,
                                           !.msg = "warning"]
                     ELSE [job EXCEPT !.pc = "set",
                                      !.links = Splice1(stock.links, job.arg)]]
    /\ UNCHANGED <<stock, outside>>

\* chrome.storage.local.set is done, or fails (ok = FALSE), and the handler
\* runs to its end: renderLinks(links), showMessage
StorageSetDone(j, ok) ==
    /\ jobs[j].pc = "set"
    /\ stock' = IF ok THEN [links |-> jobs[j].links, shown |-> Len(jobs[j].links)]
                ELSE stock
    /\ jobs' = [jobs EXCEPT ![j] =
                  [@ EXCEPT !.pc = "done",
                            !.msg = IF ok THEN "success"
                                    ELSE IF jobs[j].op = "addLink" THEN "error" ELSE "none"]]
    /\ UNCHANGED outside

\* The popup: its handlers interleaved at their awaits.
NextCollector ==
    \/ \E j \in 1..MaxJobs : AddLinkClick(j)
    \/ \E j \in 1..MaxJobs, url \in Urls \cup {NoSong} : TabsQueryReturns(j, url)
    \/ \E j \in 1..MaxJobs, index \in 0..(NumUrls - 1) : DeleteLinkClick(j, index)
    \/ \E j \in 1..MaxJobs : ClearAllClick(j)
    \/ \E j \in 1..MaxJobs : StorageGetReturns(j)
    \/ \E j \in 1..MaxJobs, ok \in BOOLEAN : StorageSetDone(j, ok)

SpecCollector == Init /\ [][NextCollector]_vars

\* ---------------------------------------------------------------- history and favorites
\* The methods of PlaylistStorage called from outside the player: they touch
\* localStorage and nothing of the player.

\* the records of old that are missing from new although their identifier
\* sequence is not uuids
Evicted(old, new, uuids) ==
    Cardinality({i \in 1..Len(old) : /\ RecordUuids(old[i]) # uuids
                                    /\ \A j \in 1..Len(new) : new[j] # old[i]})

Called(op, arg, r, ev) ==
    [op |-> op, arg |-> arg, ret |-> r.ret, threw |-> r.threw, wfail |-> r.wfail,
     evicted |-> ev]

\* a call, a millisecond after the call before it
StorageCall(op, arg, r, ev) ==
    /\ now < MaxClock
    /\ now' = now + 1
    /\ storage' = r.st
    /\ call' = Called(op, arg, r, ev)
    /\ UNCHANGED <<player, stock, jobs, share>>

SavePlaylistOp(pl, w) ==
    LET r == SavePlaylist(storage, pl, now, w)
    IN StorageCall("savePlaylist", pl, r,
                   Evicted(ReadList(storage.recent).v, ReadList(r.st.recent).v,
                           [i \in 1..Len(pl) |-> pl[i].uuid]))

SaveCurrentOp(pl, w) ==
    StorageCall("saveCurrent", pl, SaveCurrent(storage, pl, FALSE, w), 0)

GetCurrentOp == StorageCall("getCurrent", 0, GetCurrent(storage), 0)

ToggleFavoriteOp(id, w) ==
    StorageCall("toggleFavorite", id, ToggleFavorite(storage, id, w), 0)

DeletePlaylistOp(id, w, w2) ==
    StorageCall("deletePlaylist", id, DeletePlaylist(storage, id, w, w2), 0)

ToggleTrackLikeOp(u, w) ==
    StorageCall("toggleTrackLike", u, ToggleTrackLike(storage, u, w), 0)

IsTrackLikedOp(u) == StorageCall("isTrackLiked", u, IsTrackLiked(storage, u), 0)

\* The identifier lists in a fixed order: Code is one-to-one from the lists
\* onto the naturals.
RECURSIVE Code(_)
Code(l) == IF l = <<>> THEN 0 ELSE Code(SubSeq(l, 1, Len(l) - 1)) * NumUuids + l[Len(l)]

Loading  == [title |-> "placeholder", artist |-> "Loading"]
Resolved == [title |-> "resolved", artist |-> "resolved"]
Playlist(l, meta) ==
    [i \in 1..Len(l) |-> [uuid |-> l[i], title |-> meta.title, artist |-> meta.artist]]

\* The playlists the history's user saves: the empty one, the first list in
\* the order of Code that comes after every list on record, and again, with
\* their metadata resolved, the lists of the newest and of the oldest record.
SaveInputs ==
    LET recent == ReadList(storage.recent).v
        recs   == recent \o ReadList(storage.favorites).v
        codes  == {Code(RecordUuids(recs[i])) : i \in 1..Len(recs)}
        top    == IF codes = {} THEN 0 ELSE CHOOSE c \in codes : \A d \in codes : d <= c
        fresh  == {Playlist(l, Loading) :
                      l \in {m \in Lists : Code(m) = top + 1 /\ Code(m) <= MaxSaved}}
        again  == IF recent = <<>> THEN {}
                  ELSE {Playlist(RecordUuids(recent[i]), Resolved) : i \in {1, Len(recent)}}
    IN {<<>>} \cup fresh \cup again

\* The ids the history's user acts on: those of the newest and of the
\* oldest record, of the first favorite, and one that no record has.
IdInputs ==
    LET recent == ReadList(storage.recent).v
        favs   == ReadList(storage.favorites).v
    IN {0} \cup {recent[i].id : i \in {1, Len(recent)} \cap DOMAIN recent}
           \cup {favs[i].id : i \in {1} \cap DOMAIN favs}

\* ... of which those toggled while MaxFavs favorites are kept are favorites
FavInputs ==
    LET favs == ReadList(storage.favorites).v
    IN IF Len(favs) < MaxFavs THEN IdInputs ELSE {favs[i].id : i \in 1..Len(favs)}

\* The history after the lists of Code 1 to MAX_RECENT - 1 were saved in
\* that order, one every millisecond, the last of them two milliseconds ago.
Seeded ==
    Stored([i \in 1..(MAX_RECENT - 1) |->
              [id |-> 0 - i, favorited |-> FALSE,
               tracks |-> Playlist(CHOOSE l \in Lists : Code(l) = MAX_RECENT - i, Loading)]])

InitStore ==
    /\ Opened(NoQuery)
    /\ storage = [NoStorage EXCEPT !.recent = Seeded]

\* The history and the favorites from there on, every write failing or not.
NextStore ==
    \/ \E pl \in SaveInputs, w \in BOOLEAN : SavePlaylistOp(pl, w)
    \/ \E id \in FavInputs, w \in BOOLEAN : ToggleFavoriteOp(id, w)
    \/ \E id \in IdInputs, w \in BOOLEAN, w2 \in BOOLEAN : DeletePlaylistOp(id, w, w2)

SpecStore == InitStore /\ [][NextStore]_vars

\* What localStorage may hold under a key when the page is opened: nothing,
\* text that does not parse, text that parses to something else than a
\* list, or a list written by the player.
Items(lists) == {NoItem, Unparsable, WrongShape} \cup {Stored(l) : l \in lists}

\* ... under one of the keys, nothing being stored under the others
InitTotal ==
    /\ Opened(NoQuery)
    /\ \E item \in Items({<<1>>}) :
          \/ storage = [NoStorage EXCEPT !.recent = IF item.kind = "ok" THEN NoItem ELSE item]
          \/ storage = [NoStorage EXCEPT !.favorites = IF item.kind = "ok" THEN NoItem ELSE item]
          \/ storage = [NoStorage EXCEPT !.current = IF item.kind = "ok" THEN NoItem ELSE item]
          \/ storage = [NoStorage EXCEPT !.liked = item]

\* Every method of PlaylistStorage on such values, every write failing or
\* not, and loads with their lookups.
NextTotal ==
    \/ \E pl \in {<<>>, Playlist(<<1>>, Loading)}, w \in BOOLEAN : SavePlaylistOp(pl, w)
    \/ \E pl \in {<<>>, Playlist(<<1>>, Loading)}, w \in BOOLEAN : SaveCurrentOp(pl, w)
    \/ GetCurrentOp
    \/ \E id \in IdInputs, w \in BOOLEAN : ToggleFavoriteOp(id, w)
    \/ \E id \in IdInputs, w \in BOOLEAN, w2 \in BOOLEAN : DeletePlaylistOp(id, w, w2)
    \/ \E w \in BOOLEAN : ToggleTrackLikeOp(1, w)
    \/ IsTrackLikedOp(1)
    \/ LoadStart(<<1>>)
    \/ \E l \in Loads, t \in TrackIds, w \in BOOLEAN : LookupDoneW(l, t, TRUE, w)

SpecTotal == InitTotal /\ [][NextTotal]_vars

\* ---------------------------------------------------------------- C21..C30
\* the extraction loop of load l ends in this step
ExtractionEnds(l) ==
    /\ pc[l] \in {"unused", "resolving"}
    /\ pc'[l] \notin {"unused", "resolving"}

\* C21: when the extraction of a load ends and no other load has run, no
\* error was raised, the playlist holds exactly the tracks the load created
\* from its lines, one per line that yielded an identifier and in their
\* order, and when there is one the cursor is 0 and every track is pending
\* with the media URL of its identifier.
C21_LoadBuildsPlaylist ==
    [][(ExtractionEnds(1) /\ pc'[2] = "unused")
       => /\ pc'[1] # "rejected"
          /\ playlist' = OwnTracks(1, tracks')
          /\ Len(playlist') > 0 => currentIndex' = 0
          /\ \A i \in 1..Len(playlist') :
                LET t == tracks'[playlist'[i]]
                IN /\ loadingStates'[t.uuid].st = "loading"
                   /\ t.title = "placeholder" /\ t.artist = "Loading"
                   /\ t.mp3Url = Mp3Url(t.uuid)]_vars

\* the lookup of load l for track object t returns in this step
LookupReturns(l, t) == <<l, t>> \in pending /\ <<l, t>> \notin pending'

\* C22: when a lookup of a load returns, failed or not, the load is not left
\* by an exception, no other track object changes, the resolution state of
\* no other identifier changes, and the returning lookup's own result is
\* applied to its track.
C22_LookupFailureIsolated ==
    [][\A l \in Loads, t \in TrackIds :
         LookupReturns(l, t)
         => /\ pc[l] = "fetching" => pc'[l] \in {"fetching", "done"}
            /\ \A t2 \in TrackIds \ {t} : tracks'[t2] = tracks[t2]
            /\ \A u \in UUIDs \ {tracks[t].uuid} : loadingStates'[u] = loadingStates[u]
            /\ \/ tracks'[t].title = "resolved" /\ tracks'[t].artist = "resolved"
               \/ tracks'[t].title = tracks[t].title /\ tracks'[t].artist = "Error"]_vars

\* the history and the favorites as the methods read them
History   == ReadList(storage.recent).v
Favorites == ReadList(storage.favorites).v
Holds(list, rec) == \E i \in 1..Len(list) : list[i] = rec
HoldsId(list, id) == \E i \in 1..Len(list) : list[i].id = id

\* the named method of PlaylistStorage is called in this step
Calls(op) == now' # now /\ call'.op = op

\* C23: the history never holds more than 10 records, and of the records a
\* savePlaylist leaves out, apart from the one with the saved identifier
\* sequence, none is nearer the front (more recently saved) than one it keeps.
C23_HistoryCapped ==
    [][/\ Len(History') <= 10
       /\ Calls("savePlaylist")
          => \A i \in 1..Len(History), j \in 1..Len(History) :
                (i < j /\ Holds(History', History[j]))
                => \/ Holds(History', History[i])
                   \/ RecordUuids(History[i]) = RecordUuids([tracks |-> call'.arg])]_vars

\* a save has just dropped a record from a full history
C23_Witness ==
    call.op = "savePlaylist" /\ call.evicted > 0 /\ Len(History) = 10

\* C24: no two records of the history have equal identifier sequences, and
\* after a savePlaylist that succeeded the record at the front is the one
\* of that save.
C24_HistoryDeduplicated ==
    /\ \A i \in 1..Len(History), j \in 1..Len(History) :
          RecordUuids(History[i]) = RecordUuids(History[j]) => i = j
    /\ (call.op = "savePlaylist" /\ call.ret # 0)
       => /\ History # <<>>
          /\ History[1].tracks = call.arg
          /\ History[1].id = call.ret

\* a list already on record was saved again with other titles and artists:
\* the history did not grow
C24_Witness ==
    /\ call.op = "savePlaylist" /\ call.ret # 0 /\ call.evicted = 0
    /\ call.arg[1].title = "resolved"
    /\ Len(History) = MAX_RECENT - 1

\* C27: savePlaylist leaves the favorites as they are.
C27_SaveKeepsFavorites ==
    [][Calls("savePlaylist") => storage'.favorites = storage.favorites]_vars

\* a save has just dropped a record from the history and a favorite is no
\* longer in the history
C27_Witness ==
    /\ call.op = "savePlaylist" /\ call.evicted > 0
    /\ \E i \in 1..Len(Favorites) : ~HoldsId(History, Favorites[i].id)

\* C26: after deletePlaylist(id) no record of the history or of the
\* favorites has that id and every record with another id is still there;
\* when a write failed during the call both are as they were before it.
C26_DeleteFromBoth ==
    [][Calls("deletePlaylist")
       => IF call'.wfail
          THEN storage'.recent = storage.recent /\ storage'.favorites = storage.favorites
          ELSE /\ ~HoldsId(History', call'.arg) /\ ~HoldsId(Favorites', call'.arg)
               /\ \A i \in 1..Len(History) :
                     History[i].id # call'.arg => Holds(History', History[i])
               /\ \A i \in 1..Len(Favorites) :
                     Favorites[i].id # call'.arg => Holds(Favorites', Favorites[i])]_vars

\* C25: when a load completes, the history holds a record whose identifier
\* sequence is that of the playlist.
C25_LoadCreatesRecord ==
    [][\A l \in Loads :
         (pc[l] = "fetching" /\ pc'[l] = "done")
         => \E i \in 1..Len(History') :
               RecordUuids(History'[i]) = UuidsOf(playlist', tracks')]_vars

\* C28: no method of PlaylistStorage is left by an exception, no load is,
\* and a call of a method changes neither the playlist nor the cursor.
C28_PersistenceTotal ==
    [][/\ ~call'.threw
       /\ \A l \in Loads : pc'[l] # "rejected"
       /\ now' # now => UNCHANGED <<playlist, currentIndex>>]_vars

\* C29: no address occurs twice in the stored list, whatever the
\* interleaving of the handlers, and an addLink whose storage.get returns a
\* list that holds the tab's address ends there: it writes nothing, then or
\* later, and shows the warning.
C29_NoDuplicateLinks ==
    [][/\ \A a \in 1..Len(stock'.links), b \in 1..Len(stock'.links) :
             stock'.links[a] = stock'.links[b] => a = b
       /\ \A j \in 1..MaxJobs :
             (/\ jobs[j].op = "addLink" /\ jobs[j].pc = "get" /\ jobs'[j].pc # "get"
              /\ Includes(stock.links, jobs[j].arg))
             => stock' = stock /\ jobs'[j].pc = "done" /\ jobs'[j].msg = "warning"]_vars

\* an addLink found its address in the list while another handler is
\* suspended before its write
C29_Witness ==
    \E j \in 1..MaxJobs, k \in 1..MaxJobs :
        /\ jobs[j].op = "addLink" /\ jobs[j].msg = "warning"
        /\ jobs[k].pc = "set"
        /\ Len(stock.links) = NumUrls

\* the lookup has returned to its caller
Settled(f) == f.phase \in {"returned", "failed"}

\* C30: a lookup issues at most 3 requests, one per attempt; before attempt
\* 1 it has waited 1000 ms and before attempt 2 another 2000 ms; it reports
\* failure, and its track is marked with the error, only after 3 requests;
\* and once it has returned it issues no further request.
C30_RetriesWithBackoff ==
    [][\A k \in Loads \X TrackIds :
         LET f == fetches'[k]
         IN /\ f.requests <= 3
            /\ f.phase # "idle" => f.requests = f.attempt + 1
            /\ f.waited = SubSeq(<<1000, 2000>>, 1, f.attempt)
            /\ f.phase = "failed" => f.requests = 3
            /\ (tracks'[k[2]].artist = "Error" /\ tracks'[k[2]].by = k[1])
               => f.phase = "failed"
            /\ Settled(fetches[k]) => f = fetches[k]]_vars

\* one lookup has failed after its two waits and another has returned a
\* title from its second request
C30_Witness ==
    \E k \in Loads \X TrackIds, m \in Loads \X TrackIds :
        /\ fetches[k].phase = "failed" /\ fetches[k].waited = <<1000, 2000>>
        /\ fetches[m].phase = "returned" /\ fetches[m].requests = 2

\* ---------------------------------------------------------------- share: handlers
\* a share button is clicked: getShareUrl() up to its await of the fetch;
\* t.uuid of an undefined entry throws in the try block and again in the
\* catch block
GetShareUrl ==
    /\ share.pc # "saving"
    /\ share' = [pc |-> IF HasUndef(playlist) THEN "rejected" ELSE "saving",
                 answer |-> NoAnswer, url |-> NoUrl]
    /\ lastOp' = Tag("share")
    /\ UNCHANGED <<playlist, originalPlaylist, currentIndex, isPlaying, shuffleMode,
                   repeatMode, loadingStates, tracks, pc, rest, pending, superseded,
                   audio, draggedIndex, rendered, address, linksInput, startup,
                   preShuffle, storage, now, fetches, collector>>

\* the fetch of getShareUrl() settles with the given answer
SaveAnswer(answer) ==
    /\ share.pc = "saving"
    /\ LET r == ShareUrl(playlist, tracks, address, answer)
       IN share' = [pc |-> IF r.threw THEN "rejected" ELSE "returned",
                    answer |-> answer, url |-> r.url]
    /\ lastOp' = Tag("saveAnswer")
    /\ UNCHANGED <<playlist, originalPlaylist, currentIndex, isPlaying, shuffleMode,
                   repeatMode, loadingStates, tracks, pc, rest, pending, superseded,
                   audio, draggedIndex, rendered, address, linksInput, startup,
                   preShuffle, storage, now, fetches, collector>>

\* Sharing: loads, the playlist emptied, drag and drop, and getShareUrl()
\* with every answer of the service.
NextShareUrl ==
    \/ \E lines \in {<<1, 2>>, <<2>>} : LoadStart(lines)
    \/ ClearPlaylist(TRUE)
    \/ \E i \in Slots : DragStart(i)
    \/ \E i \in Slots : Drop(i)
    \/ GetShareUrl
    \/ \E answer \in Answers : SaveAnswer(answer)

SpecShareUrl == Init /\ [][NextShareUrl]_vars

\* The metadata pipeline with its scheduling: a request that is in flight
\* is answered or fails (the retries are bounded), and a suspended
\* resolveShortLink() returns.
SpecMetaFair ==
    /\ Init /\ [][NextMeta]_vars
    /\ WF_vars(\E l \in Loads, t \in TrackIds, ok \in BOOLEAN : LookupDone(l, t, ok))
    /\ WF_vars(\E l \in Loads, r \in {0, 1} : ResolveReturn(l, r))

\* A media layer that fails on every source it is given: loads, the repeat
\* mode changed, play and pause, and the 'error' event, which the element
\* fires for each source set. The playlists have two tracks or more, so
\* that each skip moves the cursor.
NextSkip ==
    \/ \E lines \in {<<1, 2>>, <<2, 1, 1>>} : LoadStart(lines)
    \/ ToggleRepeat
    \/ TogglePlay
    \/ AudioError

SpecSkip == Init /\ [][NextSkip]_vars /\ WF_vars(AudioError)

\* ---------------------------------------------------------------- C31..C38
\* the lookup of load l for track object t returns in this step after its
\* last attempt failed
LookupFails(l, t) == LookupReturns(l, t) /\ fetches'[<<l, t>>].phase = "failed"

C32_WrittenOnce ==
    [][\A l \in Loads, t \in TrackIds :
         LookupReturns(l, t)
         => /\ tracks[t].by = 0
            /\ tracks[t].title = "placeholder" /\ tracks[t].artist = "Loading"
            /\ loadingStates[tracks[t].uuid].st \notin {"loaded", "error"}]_vars

\* C33: opened at a short-identifier path, whatever the parameters p and
\* tracks hold, the page waits for the answer of the service with nothing in
\* the link input; nothing is loaded before that answer; the link input is
\* written by the answer only; and the playlist that is loaded is the list
\* the answer put in the link input.
C33_ShortIdFirst ==
    /\ address.path = "/p/x" => (startup = "fetching" /\ linksInput = <<>>)
    /\ [][address.path = "/p/x"
          => /\ startup' = "fetching" => (playlist' = <<>> /\ linksInput' = <<>>)
             /\ linksInput' # linksInput => (startup = "fetching" /\ startup' = "timer")
             /\ (startup = "timer" /\ startup' = "idle")
                => UuidsOf(playlist', tracks') = linksInput]_vars

\* opened at /p/x with a token for one list in p, the page has loaded the
\* other list, which the service answered
C33_Witness ==
    /\ address = [path |-> "/p/x", p |-> Compress(JoinUuids(<<1>>)), tracks |-> Text(<<1>>)]
    /\ pc[1] = "fetching"
    /\ UuidsOf(playlist, tracks) = <<2, 2>>

\* C34: when getShareUrl() returns after the save request failed at the
\* network level, was answered with an error status or was answered with a
\* body that has no id, it returns the compact-token URL of the playlist;
\* and it never returns a short URL made from a missing id.
C34_ShareFallsBack ==
    [][(share.pc = "saving" /\ share'.pc # "saving")
       => /\ (share'.answer.status # "ok" \/ share'.answer.body # "id")
             => /\ share'.pc = "returned"
                /\ share'.url = CompactUrl(playlist, tracks, address)
          /\ share'.url.kind = "short" => share'.url.path # "undefined"]_vars

\* C35: a load that has started its lookups eventually reaches the
\* statements after Promise.all, which clear the loading indicator and
\* write the address and the last-session snapshot.
C35_LoadFinishes ==
    \A l \in Loads : (pc[l] = "fetching") ~> (pc[l] = "done")

\* C36: when every source the media element is given fails and from some
\* point on nothing happens but the skips that the errors trigger, these
\* skips come to an end: from some point on the element has no source left
\* to report an error for.
C36_SkipChainEnds == <>[](lastOp = "error") => <>[](audio = "dead")

\* C37: a drop, whatever the index that was dragged and the item it is
\* dropped on, leaves the playlist with the same length and the same entries
\* as often as before, none of them undefined unless it was there before.
C37_ReorderPermutes ==
    [][(draggedIndex # NoDrag /\ draggedIndex' = NoDrag)
       => /\ Len(playlist') = Len(playlist)
          /\ \A x \in TrackIds \cup {Undef} :
                CountOf(playlist', x) = CountOf(playlist, x)]_vars

\* C38: no two favorites have the same id, and a toggleFavorite(id) for the
\* id of a favorite whose write does not fail removes that favorite and
\* returns false, whether or not the history still has a record with that id.
C38_FavoriteCanBeRemoved ==
    [][/\ \A i \in 1..Len(Favorites'), j \in 1..Len(Favorites') :
             Favorites'[i].id = Favorites'[j].id => i = j
       /\ (Calls("toggleFavorite") /\ HoldsId(Favorites, call'.arg) /\ ~call'.wfail)
          => ~HoldsId(Favorites', call'.arg) /\ call'.ret = 0]_vars

====
